---- MODULE Spec2Model ----
(***************************************************************************)
(* DriveMovement: the per-drive step-pulse scheduler of RepRapFirmware.    *)
(*                                                                         *)
(* One DriveMovement object (dm) is followed through one move: the owning  *)
(* DDA fills in the fields it is a friend of, one of the Prepare* entry    *)
(* points seeds the object, and the step interrupt then calls              *)
(* CalcNextStepTime until it returns false.                                *)
(*                                                                         *)
(* Number representation.  uint32_t fields are naturals reduced modulo     *)
(* WordModulus where the code can wrap; the modulus is 2^30, which no      *)
(* value of the model comes near.  float fields hold integer values,       *)
(* except the two leading words of the mp union (pressureAdvanceK/fTwoA    *)
(* and effectiveStepsPerMm/fTwoB), which hold values with one binary       *)
(* fractional digit and are stored doubled.  A float to uint32_t           *)
(* conversion truncates; a square root is kept exact up to the truncation  *)
(* that follows it.                                                        *)
(***************************************************************************)
EXTENDS Integers, Sequences, FiniteSets, TLC

VARIABLES
    dm,             \* the fields of the DriveMovement object
    dda,            \* the owning move: segment chain and clocksNeeded
    EVEN_STEPS,     \* the build switch tested by #if EVEN_STEPS
    phase,          \* "pooled", "allocated", "set", "active", "done"
    call,           \* what the last Prepare* / CalcNextStepTime call did
    taken,          \* the step pulses issued so far, by direction
    pool            \* freeList, numCreated and the objects made

vars == <<dm, dda, EVEN_STEPS, phase, call, taken, pool>>

----------------------------------------------------------------------------
(* Bounds of the model *)

MaxSegLen == 12         \* longest segment, in length units
MaxStale == 20          \* largest nextStep a pooled object may retain
MaxClocks == 500
MaxDMs == 4        \* largest clocksNeeded

(* Program constants *)

MinCalcIntervalCartesian == 8
MinCalcIntervalDelta == 8
LargeStepInterval == 999999
DeltaErrorMarker == 1000000
LateStepMarker == 10000000
NoSegmentMarker == 20000000
WordModulus == 1073741824

NullSeg == 0            \* nullptr as a segment link

----------------------------------------------------------------------------
(* Arithmetic helpers *)

U32(x) == x % WordModulus

RECURSIVE SqrtFrom(_, _)
SqrtFrom(x, r) == IF (r + 1) * (r + 1) > x THEN r ELSE SqrtFrom(x, r + 1)

\* trunc(fastSqrtf(x)) for x >= 0
FloorSqrt(x) == SqrtFrom(x, 0)

\* the least integer not below fastSqrtf(x)
CeilSqrt(x) == LET r == FloorSqrt(x) IN IF r * r = x THEN r ELSE r + 1

RECURSIVE Pow2(_)
Pow2(n) == IF n = 0 THEN 1 ELSE 2 * Pow2(n - 1)

\* x >> s on uint32_t
ShiftRight(x, s) == x \div Pow2(s)

\* (uint32_t) of a float held doubled
TruncHalves(x2) == x2 \div 2

----------------------------------------------------------------------------
(* MoveSegment: a link of the chain the planner hands over *)

IsLinear(seg) == seg.isLinear
IsAccelerating(seg) == seg.isAccelerating
IsReverse(seg) == seg.isReverse
GetSegmentLength(seg) == seg.length
GetSegmentTime(seg) == seg.time

\* The coefficient builders belong to MoveSegment; each segment carries the
\* values they return for it.
CalcC(seg, mmPerStep) == seg.c
CalcLinearB(seg, startDistance, startTime) == seg.b
CalcNonlinearA(seg, startDistance) == seg.a
CalcNonlinearB(seg, startTime, pressureAdvanceK) == seg.b

GetNext(segs, i) == IF i < Len(segs) THEN i + 1 ELSE NullSeg
IsLast(segs, i) == i = Len(segs)

----------------------------------------------------------------------------
(* DMState *)

MotionStates == {"cartAccel", "cartLinear", "cartDecelForwards",
                 "cartDecelReverse", "deltaForwards", "deltaReverse"}
DMStates == {"idle", "stepError"} \cup MotionStates

----------------------------------------------------------------------------
(* Segment advance for Cartesian axes and extruders *)

\* The coefficients and state taken from an accepted segment (lines 76-103);
\* builtFromDistance and builtFromTime keep what the builders were given
AcceptAxisOrExtruderSegment(d, seg, startDistance, startTime) ==
    LET d1 == [d EXCEPT !.pC = CalcC(seg, d.effectiveMmPerStep),
                        !.builtFromDistance = startDistance,
                        !.builtFromTime = startTime]
    IN  IF IsLinear(seg)
        THEN [d1 EXCEPT !.pB = CalcLinearB(seg, startDistance, startTime),
                        !.state = "cartLinear"]
        ELSE LET d2 == [d1 EXCEPT
                          !.pA = CalcNonlinearA(seg, startDistance),
                          !.pB = CalcNonlinearB(seg, startTime,
                                                d.mp.pressureAdvanceK_fTwoA)]
             IN  IF IsAccelerating(seg)
                 THEN [d2 EXCEPT !.state = "cartAccel"]
                 ELSE IF IsReverse(seg)
                 THEN [d2 EXCEPT !.direction = ~d.direction,
                                 !.directionChanged = TRUE,
                                 !.state = "cartDecelReverse"]
                 ELSE [d2 EXCEPT !.state = "cartDecelForwards"]

\* A variant of StepLimitAt that takes the limit one step further
StepLimitBeyond(d) ==
    TruncHalves(d.distanceSoFar * d.mp.effectiveStepsPerMm_fTwoB) + 1

\* phaseStepLimit = distanceSoFar * mp.cart.effectiveStepsPerMm
StepLimitAt(d) == TruncHalves(d.distanceSoFar * d.mp.effectiveStepsPerMm_fTwoB)

RECURSIVE NewAxisOrExtruderSegment(_, _)
NewAxisOrExtruderSegment(d, segs) ==
    IF d.currentSegment = NullSeg
    THEN [dm |-> d, ok |-> FALSE]
    ELSE LET seg == segs[d.currentSegment]
             startDistance == d.distanceSoFar
             startTime == d.timeSoFar
             d1 == [d EXCEPT !.distanceSoFar = @ + GetSegmentLength(seg),
                             !.timeSoFar = @ + GetSegmentTime(seg)]
             d2 == [d1 EXCEPT !.phaseStepLimit = StepLimitAt(d1)]
         IN  IF d2.nextStep < d2.phaseStepLimit
             THEN [dm |-> AcceptAxisOrExtruderSegment(d2, seg, startDistance,
                                                      startTime),
                   ok |-> TRUE]
             ELSE NewAxisOrExtruderSegment(
                      [d2 EXCEPT !.currentSegment = GetNext(segs, @)], segs)

----------------------------------------------------------------------------
(* Segment advance for delta towers *)

\* The radicand of netStepsAtEnd (line 139); fTwoA and fTwoB are held doubled
NetStepsRadicand(d, v) ==
    LET sDx == d.distanceSoFar * v.directionVector[1]
        sDy == d.distanceSoFar * v.directionVector[2]
        s == v.stepsPerUnit
    IN  d.mp.fDSquaredMinusAsquaredMinusBsquaredTimesSsquared
          - s * s * ( (sDx * (2 * sDx + d.mp.pressureAdvanceK_fTwoA)) \div 2
                    + (sDy * (2 * sDy + d.mp.effectiveStepsPerMm_fTwoB)) \div 2 )

\* The term added to the square root in netStepsAtEnd (line 140)
NetStepsOffset(d, v) ==
    (d.distanceSoFar * v.directionVector[3] - d.mp.h0MinusZ0) * v.stepsPerUnit

\* netStepsAtEnd > n; the square root of a negative number is a NaN, which
\* compares false
NetStepsAtEndExceeds(d, v, n) ==
    LET x == NetStepsRadicand(d, v)
        y == NetStepsOffset(d, v)
    IN  /\ x >= 0
        /\ \/ n - y < 0
           \/ x > (n - y) * (n - y)

\* (uint32_t)netStepsAtEnd, used only once netStepsAtEnd > nextStep
NetStepsAtEndTrunc(d, v) ==
    FloorSqrt(NetStepsRadicand(d, v)) + NetStepsOffset(d, v)

\* The state and step limit taken from an accepted segment (lines 145-177)
AcceptDeltaSegment(d, v) ==
    LET net == NetStepsAtEndTrunc(d, v)
    IN  IF d.direction
        THEN [d EXCEPT !.state = "deltaForwards",
                       !.phaseStepLimit =
                           IF net > d.reverseStartStep THEN d.reverseStartStep
                           ELSE IF IsLast(v.segments, d.currentSegment)
                           THEN U32(d.totalSteps + 1)
                           ELSE U32(net + 1)]
        ELSE [d EXCEPT !.state = "deltaReverse",
                       !.phaseStepLimit =
                           IF IsLast(v.segments, d.currentSegment)
                           THEN U32(d.totalSteps + 1)
                           ELSE net]

RECURSIVE NewDeltaSegment(_, _)
NewDeltaSegment(d, v) ==
    IF d.currentSegment = NullSeg
    THEN [dm |-> d, ok |-> FALSE]
    ELSE LET seg == v.segments[d.currentSegment]
             d1 == [d EXCEPT !.pC = CalcC(seg, d.effectiveMmPerStep),
                             !.builtFromDistance = d.distanceSoFar,
                             !.builtFromTime = d.timeSoFar]
             d2 == IF IsLinear(seg)
                   THEN [d1 EXCEPT !.pB = CalcLinearB(seg, d.distanceSoFar,
                                                      d.timeSoFar),
                                   !.state = "cartLinear"]
                   ELSE [d1 EXCEPT !.pA = CalcNonlinearA(seg, d.distanceSoFar),
                                   !.pB = CalcNonlinearB(seg, d.timeSoFar, 0)]
             d3 == [d2 EXCEPT !.distanceSoFar = @ + GetSegmentLength(seg),
                              !.timeSoFar = @ + GetSegmentTime(seg)]
         IN  IF NetStepsAtEndExceeds(d3, v, d3.nextStep)
             THEN [dm |-> AcceptDeltaSegment(d3, v), ok |-> TRUE]
             ELSE NewDeltaSegment(
                      [d3 EXCEPT !.currentSegment = GetNext(v.segments, @)], v)

----------------------------------------------------------------------------
(* The step-time kernel *)

\* What a call leaves behind for the observer besides the object itself
NoFull == [entered |-> FALSE, ok |-> FALSE, state |-> "idle",
           nextCalcStepTime |-> 0, shiftFactor |-> 0, late |-> FALSE,
           rollover |-> FALSE, nextStep |-> 0, stepsTillRecalc |-> 0]

\* A variant of CartShiftFactor that never batches steps
SingleStepping(stepInterval, stepsToLimit) == 0

\* A variant of CartShiftFactor that always batches eight steps
OctalStepping(stepInterval, stepsToLimit) == 3

\* The shift factor of the three Cartesian cases (lines 365-379)
CartShiftFactor(stepInterval, stepsToLimit) ==
    IF stepsToLimit > 1 /\ stepInterval < MinCalcIntervalCartesian
    THEN IF stepInterval < MinCalcIntervalCartesian \div 4 /\ stepsToLimit > 8
         THEN 3
         ELSE IF stepInterval < MinCalcIntervalCartesian \div 2
                 /\ stepsToLimit > 4
         THEN 2
         ELSE IF stepsToLimit > 2 THEN 1 ELSE 0
    ELSE 0

\* The shift factor of the delta cases (lines 443-461)
DeltaShiftFactor(stepInterval, stepsToLimit) ==
    IF stepInterval < MinCalcIntervalDelta
    THEN IF stepInterval < MinCalcIntervalDelta \div 8 /\ stepsToLimit > 16
         THEN 4
         ELSE IF stepInterval < MinCalcIntervalDelta \div 4 /\ stepsToLimit > 8
         THEN 3
         ELSE IF stepInterval < MinCalcIntervalDelta \div 2 /\ stepsToLimit > 4
         THEN 2
         ELSE IF stepsToLimit > 2 THEN 1 ELSE 0
    ELSE 0

\* nextCalcStepTime of a Cartesian state at step n (lines 382, 403, 424)
CartStepTime(d, n) ==
    CASE d.state = "cartAccel" -> d.pC + FloorSqrt(d.pA + d.pB * n)
      [] d.state = "cartLinear" -> n * d.pB + d.pC
      [] d.state = "cartDecelReverse" -> d.pC - CeilSqrt(d.pA + d.pB * n)

\* stepInterval as recomputed at lines 517-519
NewStepInterval(nextCalcStepTime, nextStepTime, shiftFactor) ==
    IF nextCalcStepTime > nextStepTime
    THEN ShiftRight(nextCalcStepTime - nextStepTime, shiftFactor)
    ELSE 0

\* A variant of NewStepTime that spaces the batch back one interval too far
NewStepTimeWholeBatch(nextCalcStepTime, stepsTillRecalc, stepInterval) ==
    nextCalcStepTime - (stepsTillRecalc + 1) * stepInterval

\* nextStepTime as stored at lines 520-524
NewStepTime(nextCalcStepTime, stepsTillRecalc, stepInterval) ==
    IF EVEN_STEPS
    THEN nextCalcStepTime - stepsTillRecalc * stepInterval
    ELSE nextCalcStepTime

\* A variant of IsFinalStep that lets any late step be brought forward
IsFinalStepAlways(d) == TRUE

\* The late-step test of line 532: may this step be brought forward?
IsFinalStep(d) == d.nextStep + 1 >= d.totalSteps

\* A variant of Rollover that stays in the segment that has just ended
KeepSegment(d, v) == [dm |-> d, ok |-> TRUE]

\* Lines 545-558: skip to the next segment when this one has no steps left
Rollover(d, v) ==
    LET d1 == [d EXCEPT !.currentSegment = GetNext(v.segments, @)]
    IN  IF d.isDelta THEN NewDeltaSegment(d1, v)
                     ELSE NewAxisOrExtruderSegment(d1, v.segments)

\* Lines 516-559: the part of the full calculation after the switch
FinishStep(d, v, nextCalcStepTime, shiftFactor, stepsToLimit) ==
    LET interval == NewStepInterval(nextCalcStepTime, d.nextStepTime,
                                    shiftFactor)
        d1 == [d EXCEPT !.stepInterval = interval,
                        !.nextStepTime = NewStepTime(nextCalcStepTime,
                                                     d.stepsTillRecalc,
                                                     interval)]
        late == nextCalcStepTime > v.clocksNeeded
        fx == [NoFull EXCEPT !.entered = TRUE,
                             !.nextCalcStepTime = nextCalcStepTime,
                             !.shiftFactor = shiftFactor,
                             !.late = late]
    IN  IF late /\ ~IsFinalStep(d1)
        THEN [dm |-> [d1 EXCEPT !.state = "stepError",
                                !.stepInterval =
                                    U32(LateStepMarker + d1.nextStepTime)],
              ok |-> FALSE, fx |-> fx]
        ELSE LET d2 == IF late
                       THEN [d1 EXCEPT !.nextStepTime = v.clocksNeeded]
                       ELSE d1
             IN  IF stepsToLimit = 0
                 THEN LET r == Rollover(d2, v)
                      IN  IF r.ok
                          THEN [dm |-> r.dm, ok |-> TRUE,
                                fx |-> [fx EXCEPT !.rollover = TRUE]]
                          ELSE [dm |-> [r.dm EXCEPT
                                          !.state = "stepError",
                                          !.stepInterval =
                                              U32(NoSegmentMarker
                                                  + r.dm.nextStepTime)],
                                ok |-> FALSE,
                                fx |-> [fx EXCEPT !.rollover = TRUE]]
                 ELSE [dm |-> d2, ok |-> TRUE, fx |-> fx]

\* Lines 364-425: the three Cartesian cases
CartesianStep(d, v, stepsToLimit) ==
    LET shiftFactor == CartShiftFactor(d.stepInterval, stepsToLimit)
        d1 == [d EXCEPT !.stepsTillRecalc = Pow2(shiftFactor) - 1]
    IN  FinishStep(d1, v, CartStepTime(d1, d1.nextStep + d1.stepsTillRecalc),
                   shiftFactor, stepsToLimit)

\* ds < 0 at line 486, with the square root kept exact
DsNegative(d, v) ==
    LET t1 == d.mp.fMinusAaPlusBbTimesS + d.mp.fHmz0s * v.directionVector[3]
        t2a == d.mp.fDSquaredMinusAsquaredMinusBsquaredTimesSsquared
                 - d.mp.fHmz0s * d.mp.fHmz0s + t1 * t1
        t2sq == IF t2a > 0 THEN t2a ELSE 0
    IN  IF d.direction
        THEN t1 < 0 \/ t1 * t1 < t2sq
        ELSE t1 < 0 /\ t1 * t1 > t2sq

\* Lines 427-510: the two delta cases; neither yields a step time yet
DeltaStep(d, v, stepsToLimit0) ==
    LET reversing == /\ d.state = "deltaForwards"
                     /\ d.reverseStartStep <= d.totalSteps
                     /\ d.nextStep = d.reverseStartStep
        d1 == IF reversing
              THEN [d EXCEPT !.direction = FALSE,
                             !.directionChanged = TRUE,
                             !.state = "deltaReverse"]
              ELSE d
        stepsToLimit ==
            IF /\ d.state = "deltaForwards"
               /\ d.reverseStartStep <= d.totalSteps
               /\ ~reversing
            THEN U32(d.reverseStartStep - d.nextStep)
            ELSE stepsToLimit0
        shiftFactor == DeltaShiftFactor(d.stepInterval, stepsToLimit)
        steps == IF d1.direction THEN Pow2(shiftFactor) ELSE -Pow2(shiftFactor)
        d2 == [d1 EXCEPT !.stepsTillRecalc = Pow2(shiftFactor) - 1,
                         !.mp.fHmz0s = @ + steps]
        fx == [NoFull EXCEPT !.entered = TRUE, !.shiftFactor = shiftFactor]
    IN  IF DsNegative(d2, v)
        THEN [dm |-> [d2 EXCEPT !.state = "stepError",
                                !.nextStep = U32(@ + DeltaErrorMarker)],
              ok |-> FALSE, fx |-> fx]
        ELSE [dm |-> d2, ok |-> FALSE, fx |-> fx]

\* bool DriveMovement::CalcNextStepTimeFull(const DDA &dda)
CalcNextStepTimeFull(d, v) ==
    LET stepsToLimit == U32(d.phaseStepLimit - d.nextStep)
        r == CASE d.state \in {"cartAccel", "cartLinear", "cartDecelReverse"}
                    -> CartesianStep(d, v, stepsToLimit)
               [] d.state \in {"deltaForwards", "deltaReverse"}
                    -> DeltaStep(d, v, stepsToLimit)
               [] OTHER
                    -> [dm |-> d, ok |-> FALSE,
                        fx |-> [NoFull EXCEPT !.entered = TRUE]]
    IN  [r EXCEPT !.fx.ok = r.ok,
                  !.fx.state = r.dm.state,
                  !.fx.nextStep = d.nextStep,
                  !.fx.stepsTillRecalc = d.stepsTillRecalc]

\* A variant of CalcNextStepTime that reports a step whatever nextStep is
StepForEver(d, v) ==
    [dm |-> [d EXCEPT !.nextStep = U32(@ + 1)],
     ok |-> TRUE, path |-> "fast", fx |-> NoFull]

\* inline bool DriveMovement::CalcNextStepTime(const DDA &dda)
CalcNextStepTime(d, v) ==
    LET d1 == [d EXCEPT !.nextStep = U32(@ + 1)]
        idle == [d1 EXCEPT !.state = "idle"]
    IN  IF d1.nextStep <= d1.totalSteps \/ d1.isExtruder
        THEN IF d1.stepsTillRecalc # 0
             THEN [dm |-> [d1 EXCEPT !.stepsTillRecalc = @ - 1,
                                     !.nextStepTime = U32(@ + d1.stepInterval)],
                   ok |-> TRUE, path |-> "fast", fx |-> NoFull]
             ELSE LET r == CalcNextStepTimeFull(d1, v)
                  IN  IF r.ok
                      THEN [dm |-> r.dm, ok |-> TRUE, path |-> "full",
                            fx |-> r.fx]
                      ELSE [dm |-> [r.dm EXCEPT !.state = "idle"],
                            ok |-> FALSE, path |-> "full", fx |-> r.fx]
        ELSE [dm |-> idle, ok |-> FALSE, path |-> "end", fx |-> NoFull]

\* inline int32_t DriveMovement::GetNetStepsTaken() const; the word of the mp
\* union read as mp.cart.extruderReverseSteps is the one mp.delta.fHmz0s
\* occupies, and no Prepare* writes it for an extruder
GetNetStepsTaken(d) ==
    LET counted == IF d.nextStep <= d.reverseStartStep
                   THEN IF d.nextStep = 0 THEN 0 ELSE d.nextStep - 1
                   ELSE d.nextStep - 2 * d.reverseStartStep + 1
        netStepsTaken == IF d.isExtruder THEN counted - 2 * d.mp.fHmz0s
                                         ELSE counted
    IN  IF d.direction THEN netStepsTaken ELSE -netStepsTaken

----------------------------------------------------------------------------
(* Preparing a move *)

\* 1.0 / x for a float x held doubled, as the fraction it is
Reciprocal(x2) == [num |-> 2, den |-> x2]

\* x times a direction-vector component (components are held doubled; the
\* delta geometry is run on whole components, where this is exact)
DirTimes(x, c2) == (x * c2) \div 2

\* dda.directionVector[drive]
DirOfDrive(v, drive) == v.directionVector[drive + 1]

\* The step-loop fields set before the first CalcNextStepTime (lines 201-204)
FirstStepFields(d) ==
    [d EXCEPT !.nextStep = 0,
              !.nextStepTime = 0,
              !.stepInterval = LargeStepInterval,
              !.stepsTillRecalc = 0]

\* bool DriveMovement::PrepareCartesianAxis(const DDA& dda, const PrepParams&)
PrepareCartesianAxis(d, v) ==
    LET eff == v.stepsPerUnit * DirOfDrive(v, d.drive)
        d1 == [d EXCEPT !.distanceSoFar = 0,
                        !.timeSoFar = 0,
                        !.mp.pressureAdvanceK_fTwoA = 0,
                        !.mp.effectiveStepsPerMm_fTwoB = eff,
                        !.effectiveMmPerStep = Reciprocal(eff),
                        !.isDelta = FALSE,
                        !.currentSegment = v.axisSegments]
        r == NewAxisOrExtruderSegment(d1, v.segments)
    IN  IF ~r.ok
        THEN [dm |-> r.dm, ok |-> FALSE, path |-> "none", fx |-> NoFull]
        ELSE CalcNextStepTime(
                 [FirstStepFields(r.dm) EXCEPT
                     !.reverseStartStep = U32(r.dm.totalSteps + 1)], v)

\* bool DriveMovement::PrepareExtruder(const DDA& dda)
PrepareExtruder(d, v) ==
    LET eff == v.stepsPerUnit * DirOfDrive(v, d.drive)
        d1 == [d EXCEPT !.distanceSoFar = v.extrusionPending,
                        !.timeSoFar = 0,
                        !.mp.pressureAdvanceK_fTwoA = 2 * v.shaperK,
                        !.mp.effectiveStepsPerMm_fTwoB = eff,
                        !.effectiveMmPerStep = Reciprocal(eff),
                        !.isDelta = FALSE,
                        !.currentSegment = v.extruderSegments]
        r == NewAxisOrExtruderSegment(d1, v.segments)
    IN  IF ~r.ok
        THEN [dm |-> r.dm, ok |-> FALSE, path |-> "none", fx |-> NoFull]
        ELSE CalcNextStepTime(
                 [FirstStepFields(r.dm) EXCEPT
                     !.reverseStartStep = U32(r.dm.totalSteps + 1)], v)

\* (int32_t)((hrev - mp.delta.h0MinusZ0) * stepsPerMm) at lines 247-248: hrev
\* is zTerm + sqrt(radicand), and the conversion truncates towards zero
NumStepsUp(radicand, zTerm, h0MinusZ0, stepsPerMm) ==
    LET whole == (zTerm - h0MinusZ0) * stepsPerMm
        x == radicand * stepsPerMm * stepsPerMm
    IN  IF FloorSqrt(x) + whole >= 0 THEN FloorSqrt(x) + whole
                                      ELSE CeilSqrt(x) + whole

\* drev at lines 241-242: the distance along the move at which the carriage
\* is at its highest
ReversalDistance(v, A, B, aAplusbB) ==
    LET cross == DirTimes(A, v.directionVector[2])
                   - DirTimes(B, v.directionVector[1])
    IN  (DirTimes(FloorSqrt(v.a2plusb2 * v.diagonalSquared - cross * cross),
                  v.directionVector[3])
         - aAplusbB) \div v.a2plusb2

\* numStepsUp at lines 246-248: the steps up to the highest point
StepsUpAt(v, drev, aAplusbB, dSquaredMinusAsquaredMinusBsquared) ==
    NumStepsUp(dSquaredMinusAsquaredMinusBsquared
                 - 2 * drev * aAplusbB - v.a2plusb2 * drev * drev,
               DirTimes(drev, v.directionVector[3]),
               FloorSqrt(dSquaredMinusAsquaredMinusBsquared),
               v.stepsPerUnit)

\* A variant of DeltaReversal that never schedules a reversal
NoReversal(d, v, A, B, aAplusbB, dSquaredMinusAsquaredMinusBsquared) ==
    [d EXCEPT !.reverseStartStep = U32(d.totalSteps + 1)]

\* Lines 231-280: the direction, the reversal point and the corrected step count
DeltaReversal(d, v, A, B, aAplusbB, dSquaredMinusAsquaredMinusBsquared) ==
    LET dz == v.directionVector[3]
        noReverse == U32(d.totalSteps + 1)
    IN  IF v.a2plusb2 <= 0
        THEN [d EXCEPT !.direction = (dz >= 0),
                       !.reverseStartStep = noReverse]
        ELSE LET drev == ReversalDistance(v, A, B, aAplusbB)
             IN  IF drev > 0 /\ drev < v.totalDistance
                 THEN LET numStepsUp ==
                              StepsUpAt(v, drev, aAplusbB,
                                        dSquaredMinusAsquaredMinusBsquared)
                      IN  IF numStepsUp < 1
                             \/ (d.direction /\ numStepsUp <= d.totalSteps)
                          THEN [d EXCEPT !.reverseStartStep = noReverse,
                                         !.direction = FALSE]
                          ELSE IF d.direction
                          THEN [d EXCEPT
                                  !.reverseStartStep = U32(numStepsUp + 1),
                                  !.totalSteps = U32(2 * numStepsUp - @)]
                          ELSE [d EXCEPT
                                  !.reverseStartStep = U32(numStepsUp + 1),
                                  !.direction = TRUE,
                                  !.totalSteps = U32(2 * numStepsUp + @)]
                 ELSE [d EXCEPT !.reverseStartStep = noReverse,
                                !.direction = (drev <= 0)]

\* bool DriveMovement::PrepareDeltaAxis(const DDA& dda, const PrepParams& params)
PrepareDeltaAxis(d, v) ==
    LET stepsPerMm == v.stepsPerUnit
        A == v.initialX - v.towerX
        B == v.initialY - v.towerY
        aAplusbB == DirTimes(A, v.directionVector[1])
                      + DirTimes(B, v.directionVector[2])
        dSquaredMinusAsquaredMinusBsquared == v.diagonalSquared - A * A - B * B
        h0MinusZ0 == FloorSqrt(dSquaredMinusAsquaredMinusBsquared)
        d1 == [d EXCEPT
                 !.mp.h0MinusZ0 = h0MinusZ0,
                 !.mp.pressureAdvanceK_fTwoA = 2 * (2 * A),
                 !.mp.effectiveStepsPerMm_fTwoB = 2 * (2 * B),
                 !.mp.fHmz0s = h0MinusZ0 * stepsPerMm,
                 !.mp.fMinusAaPlusBbTimesS = -(aAplusbB * stepsPerMm),
                 !.mp.fDSquaredMinusAsquaredMinusBsquaredTimesSsquared =
                     dSquaredMinusAsquaredMinusBsquared
                       * stepsPerMm * stepsPerMm]
        d2 == DeltaReversal(d1, v, A, B, aAplusbB,
                            dSquaredMinusAsquaredMinusBsquared)
        d3 == [d2 EXCEPT !.distanceSoFar = 0,
                         !.timeSoFar = 0,
                         !.effectiveMmPerStep =
                             Reciprocal(stepsPerMm * DirOfDrive(v, d.drive)),
                         !.isDelta = TRUE,
                         !.currentSegment = v.axisSegments]
        r == NewAxisOrExtruderSegment(d3, v.segments)
    IN  IF ~r.ok
        THEN [dm |-> r.dm, ok |-> FALSE, path |-> "none", fx |-> NoFull]
        ELSE CalcNextStepTime(FirstStepFields(r.dm), v)

----------------------------------------------------------------------------
(* The moves the planner hands over *)

\* A segment of the given class and length, with the coefficients its
\* builders return
Segment(isLinear, isAccelerating, isReverse, a, b, c, len) ==
    [isLinear |-> isLinear, isAccelerating |-> isAccelerating,
     isReverse |-> isReverse, a |-> a, b |-> b, c |-> c,
     length |-> len, time |-> len]

SegmentLengths == {2, MaxSegLen}

\* The phases of a move, each present or not: acceleration, steady speed
\* (slow or fast), deceleration, deceleration continued in reverse.  The
\* coefficients place each phase later in time than the phases before it.
AccelPhase ==
    {<<>>} \cup { <<Segment(FALSE, TRUE, FALSE, 0, 4, 0, len)>> :
                  len \in SegmentLengths }
SteadyPhase ==
    {<<>>} \cup { <<Segment(TRUE, FALSE, FALSE, 0, b, 12, len)>> :
                  b \in {1, 9}, len \in SegmentLengths }
DecelPhase ==
    {<<>>} \cup { <<Segment(FALSE, FALSE, FALSE, 0, 4, 0, len)>> :
                  len \in SegmentLengths }
ReversePhase ==
    {<<>>} \cup { <<Segment(FALSE, FALSE, TRUE, 800, -8, 420, len)>> :
                  len \in SegmentLengths }

Chains ==
    { acc \o steady \o dec \o rev :
      acc \in AccelPhase, steady \in SteadyPhase,
      dec \in DecelPhase, rev \in ReversePhase }

RECURSIVE ChainLength(_, _)
ChainLength(segs, i) ==
    IF i = NullSeg THEN 0
    ELSE GetSegmentLength(segs[i]) + ChainLength(segs, GetNext(segs, i))

HeadOf(segs) == IF Len(segs) = 0 THEN NullSeg ELSE 1

AxisDrive == 0
ExtruderDrive == 3

\* The number of steps the chain of a Cartesian or extruder move holds for
\* the drive: the step limit of its last segment
StepsInChain(v, drive, startDistance) ==
    TruncHalves((startDistance + v.totalDistance)
                  * v.stepsPerUnit * DirOfDrive(v, drive))

\* A move as the planner builds it: the chain, the direction vector and the
\* quantities Prepare* reads from the platform, the extruder shaper and
\* PrepParams
Move(kinematics, segs, isExtruder, dir, clocks, pending, k, x, y) ==
    [kinematics |-> kinematics,
     segments |-> segs,
     axisSegments |-> IF isExtruder THEN NullSeg ELSE HeadOf(segs),
     extruderSegments |-> IF isExtruder THEN HeadOf(segs) ELSE NullSeg,
     directionVector |-> dir,
     totalDistance |-> ChainLength(segs, HeadOf(segs)),
     clocksNeeded |-> clocks,
     stepsPerUnit |-> IF kinematics = "delta" THEN 2 ELSE 1,
     extrusionPending |-> pending,
     shaperK |-> k,
     a2plusb2 |-> (dir[1] * dir[1] + dir[2] * dir[2]) \div 4,
     initialX |-> x, initialY |-> y,
     towerX |-> 0, towerY |-> 0,
     diagonalSquared |-> 25]

AxisMoves ==
    { Move("cartesian", segs, FALSE, <<c, 0, 0, 0>>, MaxClocks, 0, 0, 0, 0) :
      segs \in Chains, c \in {1, 2} }

ExtruderMoves ==
    { Move("cartesian", segs, TRUE, <<0, 0, 0, c>>, MaxClocks, pending, 1, 0, 0) :
      segs \in Chains, c \in {1, 2}, pending \in {0, 1} }

DeltaMoves ==
    { Move("delta", segs, FALSE, dir, MaxClocks, 0, 0, x, y) :
      segs \in Chains,
      dir \in {<<2, 0, 0, 0>>, <<-2, 0, 0, 0>>, <<0, 0, 2, 0>>, <<0, 0, -2, 0>>},
      x \in {-4, 0}, y \in {0, 3} }

NoMove == Move("cartesian", <<>>, FALSE, <<0, 0, 0, 0>>, 0, 0, 0, 0, 0)

\* The step counts the planner may give a Cartesian or extruder move: the
\* end points are rounded to whole steps one by one, so the count is within
\* one step of what the chain holds
StepCounts(v, drive) ==
    LET n == StepsInChain(v, drive, v.extrusionPending)
    IN  {n - 1, n, n + 1} \cap (1..(n + 1))

\* The step counts the planner may give a tower: a short move, or the
\* steps of a vertical move of the chain's length
DeltaStepCounts(v) ==
    {1, 3} \cup (IF v.totalDistance > 0
                 THEN {v.stepsPerUnit * v.totalDistance} ELSE {})

\* The time at which the formula of the last segment puts step n
NominalStepTime(v, n) ==
    IF Len(v.segments) = 0 THEN 0
    ELSE LET seg == v.segments[Len(v.segments)]
         IN  IF IsLinear(seg) THEN n * seg.b + seg.c
             ELSE IF IsReverse(seg) /\ ~IsAccelerating(seg)
             THEN seg.c - CeilSqrt(seg.a + seg.b * n)
             ELSE seg.c + FloorSqrt(seg.a + seg.b * n)

\* The durations the planner may give a move of n steps: the time of its
\* last step, that time cut short by a clock (rounding), or ample
ClocksNeededValues(v, n) ==
    LET end == NominalStepTime(v, n)
    IN  {end, MaxClocks} \cup (IF end > 0 THEN {end - 1} ELSE {})

----------------------------------------------------------------------------
(* The object and its life *)

\* A DriveMovement as the constructor leaves it, or as a finished move left
\* it in the pool: only nextStep is read before Prepare* writes it
PooledDM(staleNextStep) ==
    [state |-> "idle", drive |-> AxisDrive,
     direction |-> TRUE, directionChanged |-> FALSE,
     isDelta |-> FALSE, isExtruder |-> FALSE,
     stepsTillRecalc |-> 0, totalSteps |-> 0,
     nextStep |-> staleNextStep, phaseStepLimit |-> 0, reverseStartStep |-> 0,
     nextStepTime |-> 0, stepInterval |-> 0,
     distanceSoFar |-> 0, timeSoFar |-> 0,
     pA |-> 0, pB |-> 0, pC |-> 0,
     builtFromDistance |-> 0, builtFromTime |-> 0,
     effectiveMmPerStep |-> Reciprocal(0),
     currentSegment |-> NullSeg,
     mp |-> [pressureAdvanceK_fTwoA |-> 0, effectiveStepsPerMm_fTwoB |-> 0,
             h0MinusZ0 |-> 0,
             fDSquaredMinusAsquaredMinusBsquaredTimesSsquared |-> 0,
             fHmz0s |-> 0, fMinusAaPlusBbTimesS |-> 0]]

NoSteps == [forwards |-> 0, backwards |-> 0]

NullDM == 0

\* DriveMovement::DriveMovement(DriveMovement *next): only nextDM is set; drive
\* and state are written by Allocate before anything reads them
NewDM(next) == [nextDM |-> next, drive |-> AxisDrive, state |-> "idle"]

\* freeList = nullptr, numCreated = 0; heap holds the objects made so far and
\* owned counts, per object, the callers that hold it
EmptyPool ==
    [freeList |-> NullDM, numCreated |-> 0, heap |-> <<>>, owned |-> <<>>]

NoCall == [op |-> "none", ok |-> FALSE, path |-> "none", fx |-> NoFull]

Init ==
    /\ dm \in { PooledDM(n) : n \in {0, MaxStale} }
    /\ dda = NoMove
    /\ EVEN_STEPS \in BOOLEAN
    /\ phase = "pooled"
    /\ call = NoCall
    /\ taken = NoSteps
    /\ pool = EmptyPool

\* DriveMovement *DriveMovement::Allocate(size_t p_drive, DMState st), taking
\* the object from the free list
Allocate(p_drive, st) ==
    /\ phase = "pooled"
    /\ dm' = [dm EXCEPT !.drive = p_drive, !.state = st]
    /\ phase' = "allocated"
    /\ UNCHANGED <<dda, EVEN_STEPS, call, taken, pool>>

\* The owning DDA, a friend of the class, fills in the step count, the
\* direction and the kind of drive before it calls Prepare*
SetUpMove(v, steps, forwards, clocks) ==
    /\ dda' = [v EXCEPT !.clocksNeeded = clocks]
    /\ dm' = [dm EXCEPT !.totalSteps = steps,
                        !.direction = forwards,
                        !.isExtruder = (dm.drive = ExtruderDrive)]
    /\ phase' = "set"
    /\ UNCHANGED <<EVEN_STEPS, call, taken, pool>>

SetUpAxisMove ==
    /\ phase = "allocated"
    /\ dm.drive = AxisDrive
    /\ \E v \in AxisMoves : \E steps \in StepCounts(v, AxisDrive) :
         \E forwards \in BOOLEAN : \E clocks \in ClocksNeededValues(v, steps) :
           SetUpMove(v, steps, forwards, clocks)

SetUpExtruderMove ==
    /\ phase = "allocated"
    /\ dm.drive = ExtruderDrive
    /\ \E v \in ExtruderMoves : \E steps \in StepCounts(v, ExtruderDrive) :
         \E clocks \in ClocksNeededValues(v, steps) :
           SetUpMove(v, steps, TRUE, clocks)

SetUpDeltaMove ==
    /\ phase = "allocated"
    /\ dm.drive = AxisDrive
    /\ \E v \in DeltaMoves : \E steps \in DeltaStepCounts(v) :
         \E forwards \in BOOLEAN : SetUpMove(v, steps, forwards, MaxClocks)

\* The end of a Prepare* or CalcNextStepTime call
Return(op, r) ==
    /\ dm' = r.dm
    /\ call' = [op |-> op, ok |-> r.ok, path |-> r.path, fx |-> r.fx]
    /\ phase' = IF r.ok THEN "active" ELSE "done"
    /\ UNCHANGED <<dda, EVEN_STEPS, pool>>

CallPrepareCartesianAxis ==
    /\ phase = "set"
    /\ dda.kinematics = "cartesian"
    /\ ~dm.isExtruder
    /\ UNCHANGED taken
    /\ Return("PrepareCartesianAxis", PrepareCartesianAxis(dm, dda))

CallPrepareExtruder ==
    /\ phase = "set"
    /\ dm.isExtruder
    /\ UNCHANGED taken
    /\ Return("PrepareExtruder", PrepareExtruder(dm, dda))

CallPrepareDeltaAxis ==
    /\ phase = "set"
    /\ dda.kinematics = "delta"
    /\ ~dm.isExtruder
    /\ UNCHANGED taken
    /\ Return("PrepareDeltaAxis", PrepareDeltaAxis(dm, dda))

\* The step interrupt issues the pulse of the step that is due, in the
\* direction the object shows, and asks for the next step
CallCalcNextStepTime ==
    /\ phase = "active"
    /\ taken' = IF dm.direction
                THEN [taken EXCEPT !.forwards = @ + 1]
                ELSE [taken EXCEPT !.backwards = @ + 1]
    /\ Return("CalcNextStepTime", CalcNextStepTime(dm, dda))

Next ==
    \/ \E p_drive \in {AxisDrive, ExtruderDrive} : Allocate(p_drive, "idle")
    \/ SetUpAxisMove
    \/ SetUpExtruderMove
    \/ SetUpDeltaMove
    \/ CallPrepareCartesianAxis
    \/ CallPrepareExtruder
    \/ CallPrepareDeltaAxis
    \/ CallCalcNextStepTime

Spec == Init /\ [][Next]_vars

----------------------------------------------------------------------------
(* The pool: static members freeList and numCreated, and the objects made *)

\* new DriveMovement(next); ++numCreated
Create(p, next) ==
    [p EXCEPT !.heap = Append(@, NewDM(next)),
              !.owned = Append(@, 0),
              !.numCreated = @ + 1]

RECURSIVE InitialAllocate(_, _)
InitialAllocate(p, num) ==
    IF num > p.numCreated
    THEN LET q == Create(p, p.freeList)
         IN  InitialAllocate([q EXCEPT !.freeList = Len(q.heap)], num)
    ELSE p

StillFree(heap, item) == item

\* freeList = dm->nextDM
NextFree(heap, item) == heap[item].nextDM

\* Allocate(p_drive, st) on the pool: the new pool and the object returned
AllocateFrom(p, p_drive, st) ==
    LET item == p.freeList
        q == IF item # NullDM
             THEN [p EXCEPT !.freeList = NextFree(p.heap, item),
                            !.heap[item].nextDM = NullDM]
             ELSE Create(p, NullDM)
        d == IF item # NullDM THEN item ELSE Len(q.heap)
    IN  [pool |-> [q EXCEPT !.heap[d].drive = p_drive,
                            !.heap[d].state = st,
                            !.owned[d] = @ + 1],
         dm |-> d]

\* Release(item)
Release(p, item) ==
    [p EXCEPT !.heap[item].nextDM = p.freeList,
              !.freeList = item,
              !.owned[item] = @ - 1]

\* The objects reached from freeList through nextDM, at most fuel of them
RECURSIVE Walk(_, _, _)
Walk(heap, item, fuel) ==
    IF item = NullDM \/ fuel = 0 THEN <<>>
    ELSE <<item>> \o Walk(heap, heap[item].nextDM, fuel - 1)

FreeChain(p) == Walk(p.heap, p.freeList, Len(p.heap) + 1)

RECURSIVE SumOf(_)
SumOf(counts) ==
    IF counts = <<>> THEN 0 ELSE Head(counts) + SumOf(Tail(counts))

PoolInit ==
    /\ dm = PooledDM(0)
    /\ dda = NoMove
    /\ EVEN_STEPS = FALSE
    /\ phase = "pooled"
    /\ call = NoCall
    /\ taken = NoSteps
    /\ pool = EmptyPool

CallInitialAllocate ==
    /\ \E num \in 0..MaxDMs : pool' = InitialAllocate(pool, num)
    /\ UNCHANGED <<dm, dda, EVEN_STEPS, phase, call, taken>>

CallAllocate ==
    /\ pool.freeList # NullDM \/ pool.numCreated < MaxDMs
    /\ \E p_drive \in {AxisDrive, ExtruderDrive} :
         pool' = AllocateFrom(pool, p_drive, "idle").pool
    /\ UNCHANGED <<dm, dda, EVEN_STEPS, phase, call, taken>>

\* Release is called only with an object that Allocate returned and that has
\* not been released since
CallRelease ==
    /\ \E item \in 1..Len(pool.heap) :
         /\ pool.owned[item] > 0
         /\ pool' = Release(pool, item)
    /\ UNCHANGED <<dm, dda, EVEN_STEPS, phase, call, taken>>

PoolNext ==
    \/ CallInitialAllocate
    \/ CallAllocate
    \/ CallRelease

PoolSpec == PoolInit /\ [][PoolNext]_vars

----------------------------------------------------------------------------
(* Properties *)

\* Both ends of a step taken while the move is under way: the call before
\* and the call after each reported a step
Reported == phase = "active" /\ phase' = "active"

\* The last call ran the full calculation and found the step late
LateStep == call.fx.entered /\ call.fx.late

\* The step of the last full calculation was one that may be brought forward
WasFinalStep == call.fx.nextStep + 1 >= dm.totalSteps

\* An axis move of a Cartesian machine whose chain holds every step
CoveredAxisMove ==
    /\ dda.kinematics = "cartesian"
    /\ ~dm.isExtruder
    /\ StepsInChain(dda, AxisDrive, 0) >= dm.totalSteps

\* C1: Conservation.  When CalcNextStepTime first returns false for a
\* non-extruder move whose chain covers all totalSteps steps and that hit no
\* error, nextStep = totalSteps + 1 and state = idle.
C1_Conservation ==
    (/\ phase = "done"
     /\ call.path # "none"
     /\ CoveredAxisMove
     /\ call.fx.state # "stepError")
    => (dm.nextStep = dm.totalSteps + 1 /\ dm.state = "idle")

\* A Cartesian move of one linear segment that is exactly totalSteps steps
\* long and lasts exactly to the nominal time of its last step
SingleLinearMove ==
    /\ dda.kinematics = "cartesian"
    /\ ~dm.isExtruder
    /\ Len(dda.segments) = 1
    /\ IsLinear(dda.segments[1])
    /\ dm.totalSteps = StepsInChain(dda, AxisDrive, 0)
    /\ dda.clocksNeeded = dm.totalSteps * dda.segments[1].b + dda.segments[1].c

\* C2: For a single linear segment with coefficients pB, pC, N steps long,
\* with clocksNeeded = pB*N + pC, PrepareCartesianAxis and the calls of
\* CalcNextStepTime after it report every step k = 1..N with
\* nextStepTime = pB*k + pC, and the last reported time is clocksNeeded.
C2_SingleLinearSegment ==
    SingleLinearMove =>
        /\ phase = "active" =>
             /\ dm.nextStep \in 1..dm.totalSteps
             /\ dm.nextStepTime
                  = dda.segments[1].b * dm.nextStep + dda.segments[1].c
        /\ phase = "done" =>
             /\ call.path = "end"
             /\ dm.nextStep = dm.totalSteps + 1
             /\ dm.nextStepTime = dda.clocksNeeded

\* C3: Monotonicity.  Of two consecutive calls that report a step, by the
\* fast path or the full one, the later nextStepTime is not below the earlier.
C3_Monotonic == [][Reported => dm'.nextStepTime >= dm.nextStepTime]_vars

\* C4 as claimed: no two successive reported steps have the same due time.
C4_StrictlyIncreasing == [][Reported => dm'.nextStepTime > dm.nextStepTime]_vars

\* C4: A step reported by the fast path is due strictly later than the one
\* before it exactly when stepInterval > 0, and one reported by the full
\* calculation is due strictly later whenever the time calculated is later
\* than the previous due time and not late for the move.
C4_LaterUnlessZeroInterval ==
    [][Reported =>
         /\ call'.path = "fast" =>
              (dm'.nextStepTime > dm.nextStepTime <=> dm.stepInterval > 0)
         /\ (/\ call'.path = "full"
             /\ call'.fx.nextCalcStepTime > dm.nextStepTime
             /\ ~call'.fx.late)
            => dm'.nextStepTime > dm.nextStepTime]_vars

\* A step of a batch reported at the due time of the step before it
C4_Witness ==
    /\ phase = "active"
    /\ call.op = "CalcNextStepTime"
    /\ call.path = "fast"
    /\ dm.stepInterval = 0

\* C5: After every call that reports a step, nextStepTime <= clocksNeeded,
\* and nextStepTime = clocksNeeded when the step was late and brought forward.
C5_WithinClocksNeeded ==
    phase = "active" =>
        /\ dm.nextStepTime <= dda.clocksNeeded
        /\ (call.path = "full" /\ LateStep)
           => dm.nextStepTime = dda.clocksNeeded

\* C6: A final step (nextStep + 1 >= totalSteps) calculated later than
\* clocksNeeded is reported, with nextStepTime = clocksNeeded and without
\* entering stepError.
C6_LateFinalStep ==
    (LateStep /\ WasFinalStep)
    => /\ call.ok
       /\ dm.nextStepTime = dda.clocksNeeded
       /\ call.fx.state # "stepError"

\* C7: After a call that returns false because the full calculation found
\* an error (a late step short of the last, a chain that ran out, or ds < 0
\* on a delta) the caller sees state = stepError, not idle.
C7_ErrorObservable ==
    (/\ phase = "done"
     /\ call.fx.entered
     /\ call.fx.state = "stepError")
    => dm.state = "stepError"

\* C8: A step calculated later than clocksNeeded with
\* nextStep + 1 < totalSteps makes the full calculation fail: it sets
\* state = stepError and stepInterval = 10000000 + nextStepTime, does not go
\* on to another segment, and the step is not reported.
C8_LateNonFinalStep ==
    (LateStep /\ ~WasFinalStep)
    => /\ ~call.fx.ok
       /\ call.fx.state = "stepError"
       /\ dm.stepInterval = LateStepMarker + dm.nextStepTime
       /\ ~call.fx.rollover
       /\ ~call.ok
       /\ phase = "done"

\* A move that has failed on a late step short of its last
C8_Witness ==
    /\ LateStep
    /\ ~WasFinalStep
    /\ call.op = "CalcNextStepTime"
    /\ dm.nextStep > 1

\* C9: Once a full calculation has left stepsTillRecalc = r > 0, each of the
\* next r calls reports a step without a full calculation, adds 1 to
\* nextStep, takes 1 from stepsTillRecalc, adds stepInterval to nextStepTime
\* and changes nothing else.
C9_BatchConsistency ==
    [][(phase = "active" /\ dm.stepsTillRecalc > 0)
       => /\ phase' = "active"
          /\ call'.path = "fast"
          /\ dm' = [dm EXCEPT !.nextStep = @ + 1,
                              !.stepsTillRecalc = @ - 1,
                              !.nextStepTime = @ + dm.stepInterval]]_vars

\* The move holds at least one step for the drive
HasSteps == StepsInChain(dda, dm.drive, dda.extrusionPending) >= 1

\* C10: PrepareCartesianAxis and PrepareExtruder return true exactly when
\* the move holds at least one step for the drive, whatever the object
\* retained from the move it served before.
C10_PrepareIffSteps ==
    call.op \in {"PrepareCartesianAxis", "PrepareExtruder"}
    => (call.ok <=> HasSteps)

\* C11: At every rest point of a move and after its completion,
\* GetNetStepsTaken() is the number of steps issued forwards less the number
\* issued backwards.
C11_NetStepsTaken ==
    (phase = "active" \/ (phase = "done" /\ call.path = "end"))
    => GetNetStepsTaken(dm) = taken.forwards - taken.backwards

\* C12: In a delta move with reverseStartStep <= totalSteps the direction
\* changes from forwards to backwards exactly once, on the call in which
\* nextStep = reverseStartStep; that call sets directionChanged and state =
\* deltaReverse, no other call changes the direction, and the move goes on to
\* its end.
C12_DeltaReversal ==
    [][(/\ phase = "active"
        /\ dm.isDelta
        /\ dm.reverseStartStep <= dm.totalSteps)
       => /\ IF dm'.nextStep = dm.reverseStartStep
             THEN /\ phase' = "active"
                  /\ dm.direction /\ ~dm'.direction
                  /\ dm'.directionChanged
                  /\ dm'.state = "deltaReverse"
             ELSE dm'.direction = dm.direction
          /\ phase' = "done" => call'.path = "end"]_vars

\* The step limit of segment i of an axis move: the steps its end lies at
RECURSIVE LengthUpTo(_, _)
LengthUpTo(segs, i) ==
    IF i = 0 THEN 0 ELSE GetSegmentLength(segs[i]) + LengthUpTo(segs, i - 1)

LimitOfSegment(i) ==
    TruncHalves(LengthUpTo(dda.segments, i)
                  * dda.stepsPerUnit * DirOfDrive(dda, AxisDrive))

\* A Cartesian axis move of an accelerating, a linear and a decelerating
\* segment that holds every step
ThreePhaseMove ==
    /\ CoveredAxisMove
    /\ Len(dda.segments) = 3
    /\ IsAccelerating(dda.segments[1])
    /\ IsLinear(dda.segments[2])
    /\ ~IsLinear(dda.segments[3])
    /\ ~IsAccelerating(dda.segments[3])
    /\ ~IsReverse(dda.segments[3])

\* C13: In a Cartesian move of an accelerating, a linear and a decelerating
\* segment the state is cartAccel, cartLinear and cartDecelForwards in turn,
\* changing at each segment's step limit, and every step of the three
\* segments is reported, without stepError.
C13_ThreePhases ==
    (ThreePhaseMove /\ call.path # "none")
    => /\ phase = "active" =>
            dm.state = IF dm.nextStep < LimitOfSegment(1) THEN "cartAccel"
                       ELSE IF dm.nextStep < LimitOfSegment(2) THEN "cartLinear"
                       ELSE "cartDecelForwards"
       /\ phase = "done" =>
            /\ call.path = "end"
            /\ dm.nextStep = dm.totalSteps + 1
            /\ call.fx.state # "stepError"

\* A free list that holds no object twice, and so ends
NoDuplicates(chain) ==
    \A i, j \in 1..Len(chain) : chain[i] = chain[j] => i = j

\* C14: Pool conservation.  After any sequence of InitialAllocate, Allocate
\* and Release calls numCreated never decreases and equals the number of
\* objects on the free list plus the number handed out; the free list is
\* acyclic and holds no object twice; no object is handed out while it is
\* on the free list or still held by a caller.
C14_PoolConservation ==
    /\ [](LET chain == FreeChain(pool)
          IN  /\ pool.numCreated = Len(chain) + SumOf(pool.owned)
              /\ NoDuplicates(chain)
              /\ Len(chain) <= Len(pool.heap)
              /\ \A d \in 1..Len(pool.heap) :
                   /\ pool.owned[d] <= 1
                   /\ pool.owned[d] = 1 => \A i \in 1..Len(chain) : chain[i] # d)
    /\ [][pool'.numCreated >= pool.numCreated]_vars

\* Objects were made, one is held and the free list has an object at its
\* head that was released after an older one
C14_Witness ==
    LET chain == FreeChain(pool)
    IN  /\ Len(chain) >= 2
        /\ chain[1] < chain[2]
        /\ SumOf(pool.owned) >= 1

C16_NextStepBounded ==
    phase \in {"active", "done"} => dm.nextStep <= dm.totalSteps + 1

\* C17: PrepareDeltaAxis seeds the first segment through NewDeltaSegment:
\* whenever it returns true the state is deltaForwards if direction is
\* forwards and deltaReverse otherwise, never a Cartesian state, and
\* phaseStepLimit follows the delta rules, so that it does not exceed
\* reverseStartStep while the tower moves forwards.
C17_DeltaSeeding ==
    (phase = "active" /\ call.op = "PrepareDeltaAxis")
    => /\ dm.state = IF dm.direction THEN "deltaForwards" ELSE "deltaReverse"
       /\ dm.direction => dm.phaseStepLimit <= dm.reverseStartStep

\* C18: Every step is timed with the coefficients and the state of the
\* segment it belongs to: phaseStepLimit being the first step of the next
\* segment, the step whose number equals the limit of the current segment
\* is timed by the formula of the segment accepted next, not by that of the
\* segment that has just ended.
C18_TimedByOwnSegment ==
    [][(/\ phase' = "active"
        /\ call'.fx.rollover
        /\ dm'.state \in {"cartAccel", "cartLinear", "cartDecelReverse"})
       => call'.fx.nextCalcStepTime = CartStepTime(dm', dm'.nextStep)]_vars

\* C19: In the states cartAccel, cartLinear and cartDecelReverse alike, with
\* s = phaseStepLimit - nextStep and i = stepInterval at the full
\* calculation, the shift factor is 0 unless s > 1 and i <
\* MinCalcIntervalCartesian, and then 3 if i < MinCalcIntervalCartesian/4 and
\* s > 8, else 2 if i < MinCalcIntervalCartesian/2 and s > 4, else 1 if
\* s > 2, else 0; stepsTillRecalc = 2^shift - 1 and the step time is that
\* of step nextStep + stepsTillRecalc.
C19_ShiftFactor ==
    [][(/\ phase = "active"
        /\ call'.fx.entered
        /\ dm.state \in {"cartAccel", "cartLinear", "cartDecelReverse"})
       => LET s == dm.phaseStepLimit - (dm.nextStep + 1)
              i == dm.stepInterval
              shift ==
                  IF ~(s > 1 /\ i < MinCalcIntervalCartesian) THEN 0
                  ELSE IF i < MinCalcIntervalCartesian \div 4 /\ s > 8 THEN 3
                  ELSE IF i < MinCalcIntervalCartesian \div 2 /\ s > 4 THEN 2
                  ELSE IF s > 2 THEN 1
                  ELSE 0
          IN  /\ call'.fx.shiftFactor = shift
              /\ dm'.stepsTillRecalc = Pow2(shift) - 1
              /\ call'.fx.nextCalcStepTime
                   = CartStepTime(dm, dm.nextStep + 1 + Pow2(shift) - 1)]_vars

\* A full calculation of a Cartesian axis move chose octal stepping
C19_Witness ==
    /\ call.op = "CalcNextStepTime"
    /\ call.fx.entered
    /\ call.fx.ok
    /\ ~dm.isDelta
    /\ call.fx.shiftFactor = 3
    /\ dm.stepsTillRecalc = 7

RECURSIVE TimeUpTo(_, _)
TimeUpTo(segs, i) ==
    IF i = 0 THEN 0 ELSE GetSegmentTime(segs[i]) + TimeUpTo(segs, i - 1)

\* What the segment advance is to do when it starts at segment first with
\* the totals distance and time, for step n: the first segment whose
\* cumulative step limit exceeds n, with the totals at its end
Advance(segs, first, distance, time, eff, n) ==
    LET DistanceAt(j) ==
            distance + LengthUpTo(segs, j) - LengthUpTo(segs, first - 1)
        TimeAt(j) == time + TimeUpTo(segs, j) - TimeUpTo(segs, first - 1)
        holding == IF first = NullSeg THEN {}
                   ELSE { j \in first..Len(segs) :
                            TruncHalves(DistanceAt(j) * eff) > n }
    IN  IF holding = {}
        THEN [found |-> FALSE, segment |-> NullSeg,
              distance |-> 0, time |-> 0, limit |-> 0]
        ELSE LET j == CHOOSE k \in holding : \A m \in holding : k <= m
             IN  [found |-> TRUE, segment |-> j,
                  distance |-> DistanceAt(j), time |-> TimeAt(j),
                  limit |-> TruncHalves(DistanceAt(j) * eff)]

\* The object holds the segment e, with coefficients built from the totals
\* at the start of that segment
Accepted(d, segs, e) ==
    LET seg == segs[e.segment]
    IN  /\ d.currentSegment = e.segment
        /\ d.distanceSoFar = e.distance
        /\ d.timeSoFar = e.time
        /\ d.phaseStepLimit = e.limit
        /\ d.builtFromDistance = e.distance - GetSegmentLength(seg)
        /\ d.builtFromTime = e.time - GetSegmentTime(seg)
        /\ d.pC = CalcC(seg, d.effectiveMmPerStep)
        /\ d.pB = IF IsLinear(seg)
                  THEN CalcLinearB(seg, d.builtFromDistance, d.builtFromTime)
                  ELSE CalcNonlinearB(seg, d.builtFromTime,
                                      d.mp.pressureAdvanceK_fTwoA)
        /\ ~IsLinear(seg) => d.pA = CalcNonlinearA(seg, d.builtFromDistance)

\* The state an accepted segment gives
StateOf(seg) ==
    IF IsLinear(seg) THEN "cartLinear"
    ELSE IF IsAccelerating(seg) THEN "cartAccel"
    ELSE IF IsReverse(seg) THEN "cartDecelReverse"
    ELSE "cartDecelForwards"

\* The segment advance made by PrepareCartesianAxis or PrepareExtruder
SeedingAdvance ==
    Advance(dda.segments, HeadOf(dda.segments),
            IF dm.isExtruder THEN dda.extrusionPending ELSE 0, 0,
            dda.stepsPerUnit * DirOfDrive(dda, dm.drive), dm.nextStep)

\* C21: NewAxisOrExtruderSegment accepts the first segment, from
\* currentSegment on, whose cumulative step limit trunc(distanceSoFar *
\* effectiveStepsPerMm) exceeds nextStep; the segments it skips still add
\* their length and time to distanceSoFar and timeSoFar; the coefficients of
\* the accepted segment are built from the totals at its own start; and it
\* returns false, leaving state alone, exactly when the chain ends before
\* such a segment is found.
C21_SegmentAdvance ==
    [][/\ (phase = "set" /\ dda.kinematics = "cartesian")
          => LET e == SeedingAdvance
             IN  IF ~e.found
                 THEN /\ call'.path = "none"
                      /\ dm'.state = dm.state
                      /\ dm'.currentSegment = NullSeg
                 ELSE /\ call'.path # "none"
                      /\ ~call'.fx.rollover
                           => /\ Accepted(dm', dda.segments, e)
                              /\ call'.ok
                                   => dm'.state = StateOf(dda.segments[e.segment])
       /\ (phase = "active" /\ ~dm.isDelta /\ call'.fx.rollover)
          => LET e == Advance(dda.segments,
                              GetNext(dda.segments, dm.currentSegment),
                              dm.distanceSoFar, dm.timeSoFar,
                              dm.mp.effectiveStepsPerMm_fTwoB, dm.nextStep + 1)
             IN  IF ~e.found
                 THEN /\ ~call'.ok
                      /\ dm'.currentSegment = NullSeg
                 ELSE /\ call'.ok
                      /\ Accepted(dm', dda.segments, e)
                      /\ dm'.state = StateOf(dda.segments[e.segment])]_vars

\* A Prepare* call skipped a segment that held no step to take and accepted
\* a later one
C21_Witness ==
    /\ phase = "active"
    /\ call.op \in {"PrepareCartesianAxis", "PrepareExtruder"}
    /\ ~call.fx.rollover
    /\ dm.currentSegment >= 2
    /\ dm.builtFromDistance > 0
    /\ dm.phaseStepLimit > 1

\* C22: The precondition written on CalcNextStepTimeFull holds whenever it
\* is entered through Prepare* or CalcNextStepTime: stepsTillRecalc = 0 and
\* nextStep < totalSteps.
C22_FullPrecondition ==
    call.fx.entered
    => /\ call.fx.stepsTillRecalc = 0
       /\ call.fx.nextStep < dm.totalSteps

\* The quantities PrepareDeltaAxis derives from the move and the tower
\* (lines 213-216)
TowerA == dda.initialX - dda.towerX
TowerB == dda.initialY - dda.towerY
TowerAaPlusBb ==
    DirTimes(TowerA, dda.directionVector[1])
      + DirTimes(TowerB, dda.directionVector[2])
TowerDSquaredMinusAsquaredMinusBsquared ==
    dda.diagonalSquared - TowerA * TowerA - TowerB * TowerB

\* numStepsUp for the move about to be prepared, when the highest point lies
\* within the move
StepsUp ==
    StepsUpAt(dda, ReversalDistance(dda, TowerA, TowerB, TowerAaPlusBb),
              TowerAaPlusBb, TowerDSquaredMinusAsquaredMinusBsquared)

\* PrepareDeltaAxis is about to schedule a reversal (lines 233, 244, 251)
ReversalScheduled ==
    /\ dda.a2plusb2 > 0
    /\ LET drev == ReversalDistance(dda, TowerA, TowerB, TowerAaPlusBb)
       IN  drev > 0 /\ drev < dda.totalDistance
    /\ StepsUp >= 1
    /\ ~(dm.direction /\ StepsUp <= dm.totalSteps)

\* C23: When PrepareDeltaAxis schedules a reversal (numStepsUp >= 1 and not
\* both direction forwards and numStepsUp <= totalSteps), reverseStartStep =
\* numStepsUp + 1, direction is forwards, and the adjusted totalSteps
\* (2 * numStepsUp - totalSteps if the move was forwards, 2 * numStepsUp +
\* totalSteps otherwise) does not underflow and gives 1 <= reverseStartStep
\* <= totalSteps; in every other case reverseStartStep = totalSteps + 1.
C23_ReversalSetUp ==
    [][(phase = "set" /\ dda.kinematics = "delta")
       => LET r == DeltaReversal(dm, dda, TowerA, TowerB, TowerAaPlusBb,
                                 TowerDSquaredMinusAsquaredMinusBsquared)
              adjusted == IF dm.direction THEN 2 * StepsUp - dm.totalSteps
                                          ELSE 2 * StepsUp + dm.totalSteps
          IN  /\ dm'.reverseStartStep = r.reverseStartStep
              /\ dm'.totalSteps = r.totalSteps
              /\ IF ReversalScheduled
                 THEN /\ r.reverseStartStep = StepsUp + 1
                      /\ r.direction
                      /\ adjusted >= 0
                      /\ r.totalSteps = adjusted
                      /\ 1 <= r.reverseStartStep
                      /\ r.reverseStartStep <= r.totalSteps
                 ELSE r.reverseStartStep = r.totalSteps + 1]_vars

\* PrepareDeltaAxis was called for a move with a reversal after more than
\* one step
C23_Witness ==
    /\ call.op = "PrepareDeltaAxis"
    /\ dm.reverseStartStep > 2
    /\ dm.reverseStartStep <= dm.totalSteps

\* The CalcNextStepTime calls made since Prepare* returned true: each issued
\* one pulse
CallsMade == taken.forwards + taken.backwards

\* C24: Termination.  The segment advance goes through a finite chain once,
\* forwards, so it ends; and a move of a drive that is not an extruder, with
\* totalSteps = N, ends: after a Prepare* that returned true at most N
\* further CalcNextStepTime calls return true before one returns false, and
\* after that state is not a motion state.
C24_Termination ==
    /\ []((phase = "active" /\ ~dm.isExtruder) => CallsMade <= dm.totalSteps)
    /\ [](phase = "done" => dm.state \notin MotionStates)
    /\ [][(phase = "set" \/ phase = "active")
          => /\ dm'.currentSegment \in 0..Len(dda.segments)
             /\ phase = "active"
                  => \/ dm'.currentSegment = NullSeg
                     \/ dm'.currentSegment >= dm.currentSegment]_vars

\* An axis move of several steps was ended by the call that followed its
\* last step
C24_Witness ==
    /\ phase = "done"
    /\ ~dm.isExtruder
    /\ call.op = "CalcNextStepTime"
    /\ call.path = "end"
    /\ dm.totalSteps >= 3
    /\ CallsMade = dm.totalSteps

====
